---- MODULE Spec2Model ----
(***************************************************************************)
(* scripts/signfolder.py: signFolder walks a folder with os.walk           *)
(* (followlinks = True), signs every file it does not skip, self-signs     *)
(* the collected mapping and writes the manifest at the folder's root;     *)
(* mainfunc is the command-line entry point handed to sys.exit.            *)
(*                                                                         *)
(* The folder is a small file system: real directories R (the signed       *)
(* root), S = R/s, C = R/c, CS = R/c/s and OUT (a directory outside the    *)
(* root), with an optional directory symlink S/l.  File and directory      *)
(* names are one character long, so a key "s/f" is the sequence            *)
(* <<"s", "/", "f">> and is ordered as Python orders strings.              *)
(***************************************************************************)
EXTENDS Integers, Sequences, FiniteSets, TLC

VARIABLES
    pc,              \* position of the process: start, walk, open, dump, returned, exited
    ignore_folders,  \* argument ignore_folders of signFolder
    manifestBefore,  \* the manifest file at the root when signFolder is called
    unreadable,      \* files getFileSignature cannot sign
    escaping,        \* file symlinks whose target is outside the root
    linkTarget,      \* target of the directory symlink S/l ("none": no link)
    stack,           \* os.walk's stack of directories still to yield
    cur,             \* the (root, dirnames, filenames) triple being processed
    todo,            \* filenames of cur the inner loop has not reached yet
    signatures,      \* the dict signatures, in insertion order
    self_signature,  \* the local self_signature
    manifestFile,    \* the manifest file at the root, on disk
    ret,             \* what signFolder returned: "none" (not yet), "True", "False"
    exitStatus,      \* the process's exit status, -1 while it runs
    failed,          \* history: the key whose signature came back None (<<>>: none did)
    signedAfterFail, \* history: getFileSignature was called again after that
    selfSignCalls,   \* history: number of calls of getHashSignature
    selfSignedOver,  \* history: the dict the self-signature was computed over
    walkDoneAtSelfSign, \* history: the walk had ended when the self-signature was made
    opened,          \* history: open(json_filename, "w") was called
    sawOutside,      \* history: the walk yielded a file that resolves outside the root
    signedOutside    \* history: a file resolving outside the root reached line 72

vars == <<pc, ignore_folders, manifestBefore, unreadable, escaping, linkTarget,
          stack, cur, todo, signatures, self_signature, manifestFile, ret,
          exitStatus, failed, signedAfterFail, selfSignCalls, selfSignedOver,
          walkDoneAtSelfSign, opened, sawOutside, signedOutside>>

\* Nominal paths longer than MaxDepth components keep their first MaxDepth
\* components (only a walk through a symlink cycle gets that deep).
MaxDepth == 3
\* At most MaxFaults files of a tree are unreadable or escape the root.
MaxFaults == 1

\* TrustBasics.getSignaturesLocalFilename()
MANIFEST == "m"
\* DEFAULT_IGNORE_SUBFOLDERS, as a one-character name
CACHE == "c"

RealDirs == {"R", "S", "C", "CS", "OUT"}

\* The sub-directories a real directory lists: name and the directory it resolves to.
SubdirsOf(d, link) ==
    CASE d = "R" -> {[name |-> "s", real |-> "S"], [name |-> CACHE, real |-> "C"]}
      [] d = "C" -> {[name |-> "s", real |-> "CS"]}
      [] d = "S" -> IF link = "none" THEN {} ELSE {[name |-> "l", real |-> link]}
      [] OTHER   -> {}

\* The files a real directory lists.
FilesOf(d, before) ==
    CASE d = "R" -> IF before.state = "absent" THEN {"f"} ELSE {"f", MANIFEST}
      [] d = "S" -> {"f", MANIFEST}
      [] OTHER   -> {"f"}

AllFiles(before) == {x \in RealDirs \X {"f", MANIFEST} : x[2] \in FilesOf(x[1], before)}

\* A file whose symlink-resolved location is outside the root.
Outside(d, name) == d = "OUT" \/ <<d, name>> \in escaping

NoEntry == [nom |-> <<>>, base |-> "", real |-> "none"]
RootEntry == [nom |-> <<>>, base |-> "r", real |-> "R"]

\* os.path.join(top, dirname) for a sub-directory of a walked directory
Child(e, c) ==
    [nom  |-> IF Len(e.nom) < MaxDepth THEN Append(e.nom, c.name) ELSE e.nom,
     base |-> c.name,
     real |-> c.real]

Perms(S) == {q \in [1..Cardinality(S) -> S] : \A i, j \in 1..Cardinality(S) : q[i] = q[j] => i = j}

\* ord() of the characters of a key
Ord(ch) ==
    CASE ch = "/" -> 47
      [] ch = "c" -> 99
      [] ch = "f" -> 102
      [] ch = "l" -> 108
      [] ch = "m" -> 109
      [] ch = "s" -> 115
      [] OTHER    -> 0

RECURSIVE Join(_)
\* "/".join(parts) for one-character parts
Join(parts) ==
    IF Len(parts) <= 1 THEN parts
    ELSE <<Head(parts), "/">> \o Join(Tail(parts))

\* TrustBasics.getFilePathInfo: the key of a file, or PathOutsideRootError
getFilePathInfo(e, name) ==
    [raised       |-> Outside(e.real, name),
     name_in_data |-> Join(Append(e.nom, name))]

\* TrustBasics.getFileSignature: a signature over the file's content and key, or None
None == <<>>
getFileSignature(e, name, key) ==
    IF <<e.real, name>> \in unreadable THEN None
    ELSE <<"sig:">> \o key \o <<":", e.real, name>>

RECURSIVE LexLess(_, _)
\* Python's str.__lt__
LexLess(a, b) ==
    IF a = <<>> THEN b # <<>>
    ELSE IF b = <<>> THEN FALSE
    ELSE IF Ord(Head(a)) < Ord(Head(b)) THEN TRUE
    ELSE IF Ord(Head(a)) > Ord(Head(b)) THEN FALSE
    ELSE LexLess(Tail(a), Tail(b))

RECURSIVE Insert(_, _)
Insert(sorted, pair) ==
    IF sorted = <<>> THEN <<pair>>
    ELSE IF LexLess(pair[1], Head(sorted)[1]) THEN <<pair>> \o sorted
    ELSE <<Head(sorted)>> \o Insert(Tail(sorted), pair)

RECURSIVE SortedByKey(_)
\* sorted(signatures.keys()), each key with its value
SortedByKey(sigs) ==
    IF sigs = <<>> THEN <<>>
    ELSE Insert(SortedByKey(Tail(sigs)), Head(sigs))

RECURSIVE Concat(_)
Concat(pairs) ==
    IF pairs = <<>> THEN <<>>
    ELSE Head(pairs)[1] \o Head(pairs)[2] \o Concat(Tail(pairs))

\* TrustBasics.getSelfSignHash: the digest of key0 hash0 key1 hash1 ..., keys alphabetized
getSelfSignHash(sigs) == <<"hash:">> \o Concat(SortedByKey(sigs))

\* TrustBasics.getHashSignature
getHashSignature(hash) == <<"signed:">> \o hash

\* if os.path.basename(root) in ignore_folders
IsIgnored(e) == e.base \in ignore_folders

BreakOnIgnored(rest) == <<>>
\* continue (line 66): the walk goes on with the directories still on the stack
ContinueOnIgnored(rest) == rest

ManifestAnywhere(e, filename) == filename = MANIFEST
\* if filename == TrustBasics.getSignaturesLocalFilename() and root == path
SkipsManifest(e, filename) == filename = MANIFEST /\ e.nom = <<>>

NeverNone(signature) == FALSE
\* if signature is None
SignatureIsNone(signature) == signature = None

RECURSIVE DictSet(_, _, _)
DictSet(sigs, key, value) ==
    IF sigs = <<>> THEN <<<<key, value>>>>
    ELSE IF Head(sigs)[1] = key THEN <<<<key, value>>>> \o Tail(sigs)
    ELSE <<Head(sigs)>> \o DictSet(Tail(sigs), key, value)

KeepOnlyLast(sigs, key, value) == <<<<key, value>>>>
\* signatures[name_in_data] = signature
StoreSignature(sigs, key, value) == DictSet(sigs, key, value)

AnyTime(stk, files) == TRUE
\* the for loop over os.walk has ended: nothing left to yield, no file left
WalkFinished(stk, files) == stk = <<>> /\ files = {}

ExceptReturnsTrue == "True"
\* except: ... return False (lines 95-97)
ExceptResult == "False"

\* mainfunc's return value: signFolder's result is dropped (line 115)
MainfuncReturn(result) == "None"

\* sys.exit(arg): None is status 0, an int (bool included) is the status itself
SysExit(arg) ==
    CASE arg = "None"  -> 0
      [] arg = "True"  -> 1
      [] arg = "False" -> 0
      [] OTHER         -> 1

Absent == [state |-> "absent", sigs |-> <<>>, self |-> <<>>]
OldManifest == [state |-> "full", sigs |-> <<>>, self |-> <<"signed:", "old">>]

Init ==
    /\ pc = "start"
    /\ ignore_folders \in SUBSET {CACHE, "s"}
    /\ manifestBefore \in {Absent, OldManifest}
    /\ linkTarget \in {"none", "S", "OUT"}
    /\ unreadable \in SUBSET AllFiles(manifestBefore)
    /\ escaping \in SUBSET (AllFiles(manifestBefore) \ {x \in AllFiles(manifestBefore) : x[1] = "OUT"})
    /\ unreadable \cap escaping = {}
    /\ Cardinality(unreadable \cup escaping) <= MaxFaults
    /\ stack = <<>>
    /\ cur = NoEntry
    /\ todo = {}
    /\ signatures = <<>>
    /\ self_signature = None
    /\ manifestFile = manifestBefore
    /\ ret = "none"
    /\ exitStatus = -1
    /\ failed = <<>>
    /\ signedAfterFail = FALSE
    /\ selfSignCalls = 0
    /\ selfSignedOver = <<>>
    /\ walkDoneAtSelfSign = FALSE
    /\ opened = FALSE
    /\ sawOutside = FALSE
    /\ signedOutside = FALSE

fsVars == <<ignore_folders, manifestBefore, unreadable, escaping, linkTarget>>
histVars == <<failed, signedAfterFail, selfSignCalls, selfSignedOver, walkDoneAtSelfSign,
              opened, sawOutside, signedOutside>>

\* private_key = TrustBasics.loadPrivateKey(...); if private_key is None: return False
LoadKey ==
    /\ pc = "start"
    /\ \E loaded \in BOOLEAN :
         IF loaded
         THEN /\ pc' = "walk"
              /\ stack' = <<RootEntry>>
              /\ ret' = ret
         ELSE /\ pc' = "returned"
              /\ ret' = "False"
              /\ stack' = stack
    /\ UNCHANGED <<fsVars, histVars, cur, todo, signatures, self_signature,
                   manifestFile, exitStatus>>

\* os.walk yields the next directory; its sub-directories go on the stack in the
\* order scandir listed them, whatever the loop body does with the directory.
WalkNext ==
    /\ pc = "walk"
    /\ todo = {}
    /\ stack # <<>>
    /\ LET top  == stack[Len(stack)]
           rest == SubSeq(stack, 1, Len(stack) - 1)
           subs == SubdirsOf(top.real, linkTarget)
       IN  /\ cur' = top
           /\ \E order \in Perms(subs) :
                LET pushed == rest \o [i \in 1..Cardinality(subs) |-> Child(top, order[i])]
                IN  IF IsIgnored(top)
                    THEN /\ stack' = ContinueOnIgnored(pushed)
                         /\ todo' = {}
                    ELSE /\ stack' = pushed
                         /\ todo' = FilesOf(top.real, manifestBefore)
           /\ sawOutside' = (sawOutside \/
                               \E n \in FilesOf(top.real, manifestBefore) : Outside(top.real, n))
    /\ UNCHANGED <<fsVars, pc, signatures, self_signature, manifestFile, ret, exitStatus,
                   failed, signedAfterFail, selfSignCalls, selfSignedOver, walkDoneAtSelfSign,
                   opened, signedOutside>>

\* One turn of "for filename in filenames" (lines 67-77)
SignFile ==
    /\ pc = "walk"
    /\ \E filename \in todo :
         LET info == getFilePathInfo(cur, filename)
             signature == getFileSignature(cur, filename, info.name_in_data)
         IN  IF SkipsManifest(cur, filename)
             THEN /\ todo' = todo \ {filename}
                  /\ UNCHANGED <<pc, ret, signatures, failed, signedAfterFail, signedOutside>>
             ELSE IF info.raised
             THEN /\ pc' = "returned"
                  /\ ret' = ExceptResult
                  /\ signedOutside' = TRUE
                  /\ UNCHANGED <<todo, signatures, failed, signedAfterFail>>
             ELSE /\ signedAfterFail' = (signedAfterFail \/ failed # <<>>)
                  /\ signedOutside' = signedOutside
                  /\ IF SignatureIsNone(signature)
                     THEN /\ pc' = "returned"
                          /\ ret' = "False"
                          /\ failed' = info.name_in_data
                          /\ UNCHANGED <<todo, signatures>>
                     ELSE /\ signatures' = StoreSignature(signatures, info.name_in_data, signature)
                          /\ todo' = todo \ {filename}
                          /\ failed' = IF signature = None THEN info.name_in_data ELSE failed
                          /\ UNCHANGED <<pc, ret>>
    /\ UNCHANGED <<fsVars, stack, cur, self_signature, manifestFile, exitStatus,
                   selfSignCalls, selfSignedOver, walkDoneAtSelfSign, opened, sawOutside>>

\* self_signature = getHashSignature(getSelfSignHash(signatures), private_key) (line 80)
SelfSign ==
    /\ pc = "walk"
    /\ WalkFinished(stack, todo)
    /\ selfSignCalls' = selfSignCalls + 1
    /\ selfSignedOver' = signatures
    /\ walkDoneAtSelfSign' = (stack = <<>> /\ todo = {})
    /\ \E signed \in BOOLEAN :
         IF signed
         THEN /\ self_signature' = getHashSignature(getSelfSignHash(signatures))
              /\ pc' = "open"
              /\ ret' = ret
         ELSE /\ self_signature' = self_signature
              /\ pc' = "returned"
              /\ ret' = ExceptResult
    /\ UNCHANGED <<fsVars, stack, cur, todo, signatures, manifestFile, exitStatus,
                   failed, signedAfterFail, opened, sawOutside, signedOutside>>

\* open(json_filename, "w", encoding = "utf-8") (line 89)
OpenManifest ==
    /\ pc = "open"
    /\ \E canOpen \in BOOLEAN :
         IF canOpen
         THEN /\ manifestFile' = [state |-> "empty", sigs |-> <<>>, self |-> <<>>]
              /\ opened' = TRUE
              /\ pc' = "dump"
              /\ ret' = ret
         ELSE /\ manifestFile' = manifestFile
              /\ opened' = opened
              /\ pc' = "returned"
              /\ ret' = ExceptResult
    /\ UNCHANGED <<fsVars, stack, cur, todo, signatures, self_signature, exitStatus,
                   failed, signedAfterFail, selfSignCalls, selfSignedOver, walkDoneAtSelfSign,
                   sawOutside, signedOutside>>

\* json.dump(wrapped_signatures, data_file, indent = 2); return True (lines 90-93)
DumpManifest ==
    /\ pc = "dump"
    /\ LET wrapped == signatures
       IN  \/ /\ manifestFile' = [state |-> "full", sigs |-> wrapped, self |-> self_signature]
              /\ ret' = "True"
           \/ \E written \in 0..Len(wrapped) :
                /\ manifestFile' = [state |-> "partial",
                                    sigs  |-> SubSeq(wrapped, 1, written),
                                    self  |-> <<>>]
                /\ ret' = ExceptResult
    /\ pc' = "returned"
    /\ UNCHANGED <<fsVars, histVars, stack, cur, todo, signatures, self_signature, exitStatus>>

\* sys.exit(mainfunc()) (lines 115, 119)
MainExit ==
    /\ pc = "returned"
    /\ exitStatus' = SysExit(MainfuncReturn(ret))
    /\ pc' = "exited"
    /\ UNCHANGED <<fsVars, histVars, stack, cur, todo, signatures, self_signature,
                   manifestFile, ret>>

Next == LoadKey \/ WalkNext \/ SignFile \/ SelfSign \/ OpenManifest \/ DumpManifest \/ MainExit

Spec == Init /\ [][Next]_vars

\* The process is always scheduled: a step that can be taken is taken.
FairSpec == Spec /\ WF_vars(Next)

----------------------------------------------------------------------------
(* What the claims speak of. *)

KeysOf(sigs) == {sigs[i][1] : i \in 1..Len(sigs)}
PairsOf(sigs) == {sigs[i] : i \in 1..Len(sigs)}
Range(q) == {q[i] : i \in 1..Len(q)}

\* The directory names of a key: every component but the last.
DirParts(key) == {key[i] : i \in {j \in 1..Len(key) : j % 2 = 1 /\ j < Len(key)}}

Returned == pc \in {"returned", "exited"}

RECURSIVE Reach(_, _)
\* Every directory under e by its nominal path, n levels down.
Reach(e, n) ==
    {e} \cup (IF n = 0 THEN {}
              ELSE UNION {Reach(Child(e, c), n - 1) : c \in SubdirsOf(e.real, linkTarget)})

NominalFiles ==
    {x \in Reach(RootEntry, MaxDepth) \X {"f", MANIFEST} :
        x[2] \in FilesOf(x[1].real, manifestBefore)}

KeyAt(x) == Join(Append(x[1].nom, x[2]))
IsRootManifest(x) == x[1].nom = <<>> /\ x[2] = MANIFEST

\* C1: after a successful signFolder no key of the written mapping lies, at any
\* depth, under a directory whose basename is in ignore_folders.
C1_IgnoredSubtreeSkipped ==
    ret = "True" =>
        \A key \in KeysOf(manifestFile.sigs) : DirParts(key) \cap ignore_folders = {}

\* C2: once getFileSignature has returned None for a file, signFolder has returned
\* False at that file: no further file was signed, no self-signature computed, the
\* manifest neither opened nor written.
C2_SignFailureAborts ==
    failed # <<>> =>
        /\ Returned
        /\ ret = "False"
        /\ ~signedAfterFail
        /\ selfSignCalls = 0
        /\ self_signature = None
        /\ ~opened
        /\ manifestFile = manifestBefore

C2_Witness ==
    /\ failed # <<>>
    /\ pc = "exited"
    /\ Len(signatures) >= 2
    /\ stack # <<>>

\* C3: whenever signFolder has returned False, the manifest file at the root is
\* absent or holds exactly the content it had before the call.
C3_NoPartialManifest ==
    ret = "False" =>
        manifestFile.state = "absent" \/ manifestFile = manifestBefore

\* C4: after a successful signFolder every file reachable under the root that is
\* not inside an ignored directory and is not the root-level manifest has exactly
\* one entry in the written mapping, keyed by its relative path.
C4_EveryEligibleFileSigned ==
    ret = "True" =>
        \A x \in NominalFiles :
            (Range(x[1].nom) \cap ignore_folders = {} /\ ~IsRootManifest(x)) =>
                Cardinality({i \in 1..Len(manifestFile.sigs) :
                                manifestFile.sigs[i][1] = KeyAt(x)}) = 1

C4_Witness ==
    /\ ret = "True"
    /\ manifestBefore.state # "absent"
    /\ Len(manifestFile.sigs) >= 4

\* C5 as stated: if the walk yielded a file that resolves outside the root,
\* signFolder returns False and no manifest with an entry for it is written.
C5_OutsideFileRejectsBuild ==
    (sawOutside /\ Returned) =>
        /\ ret = "False"
        /\ \A x \in NominalFiles :
              Outside(x[1].real, x[2]) => KeyAt(x) \notin KeysOf(manifestFile.sigs)

\* C5 amended: if a file that resolves outside the root is one signFolder does not
\* skip (its directory's basename is not in ignore_folders and it is not the
\* root-level manifest), signFolder returns False there and writes no manifest.
C5_SignedOutsideFileRejectsBuild ==
    signedOutside =>
        /\ Returned
        /\ ret = "False"
        /\ ~opened
        /\ manifestFile = manifestBefore

C5_Witness ==
    /\ signedOutside
    /\ pc = "exited"
    /\ signatures # <<>>

\* C6: the manifest file directly at the root is never a key of the mapping,
\* whether or not it existed before; a file of that name in a sub-directory is
\* signed like any other file.
C6_OnlyRootManifestExcluded ==
    /\ <<MANIFEST>> \notin KeysOf(signatures) \cup KeysOf(manifestFile.sigs)
    /\ ret = "True" =>
         \A x \in NominalFiles :
            (x[2] = MANIFEST /\ x[1].nom # <<>> /\ x[1].base \notin ignore_folders) =>
                KeyAt(x) \in KeysOf(manifestFile.sigs)

C6_Witness ==
    /\ ret = "True"
    /\ manifestBefore.state # "absent"
    /\ <<"s", "/", MANIFEST>> \in KeysOf(manifestFile.sigs)

\* C7: the exit status tells signFolder's result: 0 (success) exactly when it
\* returned True.
C7_ExitStatusReflectsResult ==
    pc = "exited" => (exitStatus = 0 <=> ret = "True")

\* What a walk signs, as a function of the tree alone: the files of every
\* directory whose own basename is not ignored, but the root-level manifest.
ExpectedPairs ==
    {<<KeyAt(x), getFileSignature(x[1], x[2], KeyAt(x))>> :
        x \in {y \in NominalFiles : y[1].base \notin ignore_folders /\ ~IsRootManifest(y)}}

RECURSIVE Ascending(_)
\* The pairs of a set, by ascending key.
Ascending(S) ==
    IF S = {} THEN <<>>
    ELSE LET least == CHOOSE p \in S : \A q \in S \ {p} : LexLess(p[1], q[1])
         IN  <<least>> \o Ascending(S \ {least})

\* C8: for a fixed tree, ignore set and key, the mapping and the self-signature
\* written are the same whatever order the walk lists directories and files in.
C8_WalkOrderIrrelevant ==
    ret = "True" =>
        /\ PairsOf(manifestFile.sigs) = ExpectedPairs
        /\ Len(manifestFile.sigs) = Cardinality(ExpectedPairs)
        /\ manifestFile.self = <<"signed:", "hash:">> \o Concat(Ascending(ExpectedPairs))

C8_Witness ==
    /\ ret = "True"
    /\ Len(manifestFile.sigs) >= 3
    /\ SortedByKey(manifestFile.sigs) # manifestFile.sigs

\* C9: the self-signature is computed at most once, only when the walk has ended,
\* and the mapping written is the mapping it was computed over.
C9_SelfSignOnceAfterWalk ==
    /\ selfSignCalls <= 1
    /\ selfSignCalls = 0 => (~opened /\ self_signature = None)
    /\ selfSignCalls = 1 =>
         /\ walkDoneAtSelfSign
         /\ signatures = selfSignedOver
         /\ stack = <<>> /\ todo = {}
    /\ ret = "True" =>
         /\ selfSignCalls = 1
         /\ manifestFile.sigs = selfSignedOver
         /\ manifestFile.self = getHashSignature(getSelfSignHash(selfSignedOver))

C9_Witness ==
    /\ ret = "True"
    /\ selfSignCalls = 1
    /\ Len(selfSignedOver) >= 3

\* C10: every invocation of signFolder eventually returns, a symlink cycle in the
\* tree included.
C10_SignFolderReturns == <>(ret # "none")
====
